---- MODULE Spec2Model ----
(***************************************************************************)
(* Process orchestration of the Claude CLI runner                          *)
(* (src-tauri/src/commands/claude/cli_runner.rs): spawn_claude_process     *)
(* with its stdin, stdout, stderr and wait tasks, the legacy single slot   *)
(* ClaudeProcessState.current_process, cancel_claude_execution, and the    *)
(* process registry the runner calls into.                                 *)
(*                                                                         *)
(* Option<T> values are sets: {} is None and {x} is Some(x).               *)
(***************************************************************************)
EXTENDS Integers, Sequences, FiniteSets, TLC

\* ------------------------------------------------------------------ bounds
MaxRuns == 2          \* calls of spawn_claude_process
MaxCancels == 2       \* calls of cancel_claude_execution
MaxCalls == 3         \* calls of both commands together, lifecycle specification
MaxLifeLines == 1     \* stdout lines per child in the lifecycle specification
MaxLines == 2         \* stdout lines per child in the router specification
MaxPromptRuns == 3    \* runs of equal characters in a prompt
MaxErrLines == 1
MaxUsageLines == 3      \* stderr lines of the child in the stream specification

SlashMaxLen == 256    \* is_slash_command: trimmed.len() < 256

Runs == 1..MaxRuns
Cancels == 1..MaxCancels
SIDs == {"s1", "s2"}

\* ------------------------------------------------------------------ prompts
\* A prompt is a sequence of runs <<c, n>>: character c repeated n times.
\* "e2" stands for a character of two UTF-8 bytes; str::len counts bytes.
Chars == {"/", "a", " ", "\n", "e2"}
Counts == {1, 254, 255}
PromptRun == Chars \X Counts

RECURSIVE SeqsUpTo(_, _)
SeqsUpTo(S, n) ==
  IF n = 0 THEN {<<>>}
  ELSE LET shorter == SeqsUpTo(S, n - 1)
       IN  shorter \cup {Append(q, x) : q \in {t \in shorter : Len(t) = n - 1}, x \in S}

AllPrompts == SeqsUpTo(PromptRun, MaxPromptRuns)

IsWhitespace(c) == c \in {" ", "\n"}
Width(c) == IF c = "e2" THEN 2 ELSE 1

RECURSIVE TrimStart(_)
TrimStart(p) ==
  IF p # <<>> /\ IsWhitespace(p[1][1]) THEN TrimStart(Tail(p)) ELSE p

RECURSIVE TrimEnd(_)
TrimEnd(p) ==
  IF p # <<>> /\ IsWhitespace(p[Len(p)][1])
  THEN TrimEnd(SubSeq(p, 1, Len(p) - 1)) ELSE p

\* str::trim
Trim(p) == TrimEnd(TrimStart(p))

RECURSIVE ByteLen(_)
\* str::len
ByteLen(p) ==
  IF p = <<>> THEN 0 ELSE p[1][2] * Width(p[1][1]) + ByteLen(Tail(p))

StartsWithSlash(p) == p # <<>> /\ p[1][1] = "/"
ContainsNewline(p) == \E i \in 1..Len(p) : p[i][1] = "\n"

is_slash_command_NoTrim(prompt) ==
  StartsWithSlash(prompt) /\ ~ContainsNewline(prompt) /\ ByteLen(prompt) < SlashMaxLen

is_slash_command_Inclusive(prompt) ==
  LET trimmed == Trim(prompt)
  IN  StartsWithSlash(trimmed) /\ ~ContainsNewline(trimmed)
        /\ ByteLen(trimmed) <= SlashMaxLen

is_slash_command(prompt) ==
  LET trimmed == Trim(prompt)
  IN  StartsWithSlash(trimmed) /\ ~ContainsNewline(trimmed)
        /\ ByteLen(trimmed) < SlashMaxLen

\* the prompts of the spec's scenarios
PromptClear == << <<"/", 1>>, <<"a", 5>> >>
PromptHello == << <<"a", 5>> >>
PromptLong == << <<"a", 10000>> >>
PromptHelpBody == << <<"/", 1>>, <<"a", 4>>, <<"\n", 1>>, <<"a", 4>> >>
ScenarioPrompts == {PromptClear, PromptHello, PromptLong, PromptHelpBody}

\* ------------------------------------------------------------------ stdout lines
\* A stdout line is what serde_json::from_str and the field reads see of it.
NotJson == [json |-> FALSE, type |-> "", subtype |-> "", session_id |-> {}, usage |-> {}]
InitLine(s) ==
  [json |-> TRUE, type |-> "system", subtype |-> "init", session_id |-> {s}, usage |-> {}]
\* A JSON number is an unsigned integer or a float to serde_json.
U64(n) == [kind |-> "u64", val |-> n]
F64(n) == [kind |-> "f64", val |-> n]
UsageOf(input, output) ==
  [json |-> TRUE, type |-> "assistant", subtype |-> "", session_id |-> {},
   usage |-> {[input_tokens |-> input, output_tokens |-> output]}]
UsageLine == UsageOf({U64(10)}, {U64(5)})
UsageLineFloat == UsageOf({F64(10)}, {U64(5)})
UsageLineNoOutput == UsageOf({U64(10)}, {})

RouterLineSet == {InitLine(s) : s \in SIDs} \cup {NotJson, UsageLine}

VARIABLES
  spawn_pc,          \* per call of spawn_claude_process: where the call is
  prompt,            \* per call of spawn_claude_process: its prompt argument
  child,             \* per run: the OS process spawned by the call
  argv_p,            \* per run: the prompt passed after -p, if any
  stdin_pc,          \* per run: the stdin task
  stdin_data,        \* per run: what was written to the child's stdin
  current_process,   \* ClaudeProcessState.current_process: the legacy slot
  lock,              \* holder of the slot's mutex
  existing_child,    \* per call of spawn: the occupant it took out of the slot
  session_id_holder, \* per run
  run_id_holder,     \* per run
  stdout_pc, stderr_pc, wait_pc,   \* per run: the three tasks
  n_out, n_err,      \* per run: lines read so far from stdout / stderr
  taken_child,       \* per wait task: the child it took out of the slot
  wait_result,       \* per wait task: the result of child.wait()
  registry,          \* ProcessRegistry: run_id -> record
  next_run_id,       \* ProcessRegistry: next id to hand out
  cancel_pc, cancel_sid, killed, attempted_methods, cancel_child,  \* per cancel call
  cancel_found,      \* per cancel call: the run_id found in the registry
  tried,             \* per cancel call: the kill methods tried, with their results
  first_init,        \* per run: session id of the first valid init line read
  decode_errors,     \* per run: stdout lines that were not valid UTF-8
  sid_writes,        \* per run: writes to session_id_holder
  register_calls,    \* per run: calls of register_claude_session
  appends,           \* per run: the append_live_output calls of its stdout task
  usage_updates,     \* per run: update_session_tokens calls
  resume_pc,         \* the call of resume_claude_code: where it is
  resume_attempts,   \* the call of resume_claude_code: the modes it started
  cmd_env,           \* the last Command built: its inputs and the child's environment
  dropped,           \* the drop of ClaudeProcessState: its runtime, what it found
  ev_out, ev_err, ev_wait, ev_cancel   \* events emitted, per emitting task

vars == <<spawn_pc, prompt, child, argv_p, stdin_pc, stdin_data, current_process, lock,
          existing_child, session_id_holder, run_id_holder, stdout_pc, stderr_pc,
          wait_pc, n_out, n_err, taken_child, wait_result, registry, next_run_id,
          cancel_pc, cancel_sid, killed, attempted_methods, cancel_child,
          cancel_found, tried, first_init, decode_errors, sid_writes, register_calls, appends,
          usage_updates, resume_pc, resume_attempts, cmd_env, dropped, ev_out, ev_err, ev_wait,
          ev_cancel>>

procVars == <<child>>
spawnVars == <<spawn_pc, prompt, argv_p, existing_child>>
stdinVars == <<stdin_pc, stdin_data>>
slotVars == <<current_process, lock>>
routerVars == <<session_id_holder, run_id_holder, stdout_pc, n_out, first_init, decode_errors,
                sid_writes, register_calls, appends, usage_updates, ev_out>>
stderrVars == <<stderr_pc, n_err, ev_err>>
waitVars == <<wait_pc, taken_child, wait_result, ev_wait>>
registryVars == <<registry, next_run_id>>
resumeVars == <<resume_pc, resume_attempts, cmd_env, dropped>>
cancelVars == <<cancel_pc, cancel_sid, killed, attempted_methods, cancel_child,
                cancel_found, tried, ev_cancel>>

Init ==
  /\ spawn_pc = [r \in Runs |-> "idle"]
  /\ prompt = [r \in Runs |-> {}]
  /\ child = [r \in Runs |-> "none"]
  /\ argv_p = [r \in Runs |-> {}]
  /\ stdin_pc = [r \in Runs |-> "none"]
  /\ stdin_data = [r \in Runs |-> [written |-> {}, closed |-> FALSE]]
  /\ current_process = {}
  /\ lock = {}
  /\ existing_child = [r \in Runs |-> {}]
  /\ session_id_holder = [r \in Runs |-> {}]
  /\ run_id_holder = [r \in Runs |-> {}]
  /\ stdout_pc = [r \in Runs |-> "none"]
  /\ stderr_pc = [r \in Runs |-> "none"]
  /\ wait_pc = [r \in Runs |-> "none"]
  /\ n_out = [r \in Runs |-> 0]
  /\ n_err = [r \in Runs |-> 0]
  /\ taken_child = [r \in Runs |-> {}]
  /\ wait_result = [r \in Runs |-> "none"]
  /\ registry = <<>>
  /\ next_run_id = 1
  /\ cancel_pc = [c \in Cancels |-> "idle"]
  /\ cancel_sid = [c \in Cancels |-> {}]
  /\ killed = [c \in Cancels |-> FALSE]
  /\ attempted_methods = [c \in Cancels |-> <<>>]
  /\ cancel_child = [c \in Cancels |-> {}]
  /\ cancel_found = [c \in Cancels |-> {}]
  /\ tried = [c \in Cancels |-> <<>>]
  /\ first_init = [r \in Runs |-> {}]
  /\ decode_errors = [r \in Runs |-> 0]
  /\ sid_writes = [r \in Runs |-> 0]
  /\ register_calls = [r \in Runs |-> 0]
  /\ appends = [r \in Runs |-> <<>>]
  /\ usage_updates = [r \in Runs |-> <<>>]
  /\ resume_pc = "idle"
  /\ resume_attempts = <<>>
  /\ cmd_env = {}
  /\ dropped = {}
  /\ ev_out = [r \in Runs |-> <<>>]
  /\ ev_err = [r \in Runs |-> <<>>]
  /\ ev_wait = [r \in Runs |-> <<>>]
  /\ ev_cancel = [c \in Cancels |-> <<>>]

\* ------------------------------------------------------------------ processes
\* Child::kill / kill by pid: a successful kill ends a running process; a
\* process that has exited keeps its exit status.
Kill(ch, r, ok) ==
  IF ok /\ ch[r] = "running" THEN [ch EXCEPT ![r] = "exit_fail"] ELSE ch

\* the child exits by itself, with a zero or non-zero status
child_exit(r, success) ==
  /\ child[r] = "running"
  /\ child' = [child EXCEPT ![r] = IF success THEN "exit_ok" ELSE "exit_fail"]
  /\ UNCHANGED <<spawnVars, stdinVars, slotVars, routerVars, stderrVars, waitVars,
                 registryVars, cancelVars, resumeVars>>

\* ExitStatus::success
StatusSuccess(st) == st = "exit_ok"

\* ------------------------------------------------------------------ legacy slot
\* The MutexGuard returned by current_process.lock().await lives to the end
\* of its block: the task that took the occupant out keeps the lock while it
\* awaits the occupant's kill or exit.
\* Option::take moves the child out of the slot and leaves None
Take_Peek(slot) == slot
Take(slot) == {}

SlotGuard_Dropped(kind, id) == {}
SlotGuard(kind, id) == {<<kind, id>>}

\* ------------------------------------------------------------------ events
\* An emitted event: its name, the session id in the event name ({} for the
\* generic event), and its payload.
Ev(name, scope, ok, status, line, ids) ==
  [name |-> name, scope |-> scope, ok |-> ok, status |-> status, line |-> line,
   ids |-> ids]
EvBool(name, scope, ok) == Ev(name, scope, ok, "", {}, {})
EvLine(name, scope, line) == Ev(name, scope, TRUE, "", {line}, {})
EvStarted(sid, pid, run_id) ==
  Ev("claude-session-state", {}, TRUE, "started", {},
     {[session_id |-> sid, pid |-> pid, run_id |-> run_id]})
EvStopped(sid, success) ==
  Ev("claude-session-state", {}, success, "stopped", {},
     {[session_id |-> sid, pid |-> 0, run_id |-> 0]})

\* ------------------------------------------------------------------ registry
\* ProcessRegistry, as the runner uses it.
register_claude_session(reg, run_id, sid, pid) ==
  (run_id :> [session_id |-> sid, pid |-> pid, live_output |-> <<>>]) @@ reg

get_claude_session_by_id(reg, sid) ==
  {id \in DOMAIN reg : reg[id].session_id = sid}

append_live_output(reg, run_id, line) ==
  IF run_id \in DOMAIN reg
  THEN [reg EXCEPT ![run_id].live_output = Append(@, line)]
  ELSE reg

unregister_process(reg, run_id) ==
  [id \in DOMAIN reg \ {run_id} |-> reg[id]]

get_live_output(reg, run_id) ==
  IF run_id \in DOMAIN reg THEN reg[run_id].live_output ELSE <<>>

\* ------------------------------------------------------------------ spawn_claude_process
\* the tasks started once the child is stored in the slot
StartTasks(r) ==
  /\ stdout_pc' = [stdout_pc EXCEPT ![r] = "reading"]
  /\ stderr_pc' = [stderr_pc EXCEPT ![r] = "reading"]
  /\ wait_pc' = [wait_pc EXCEPT ![r] = "join"]

\* cmd.spawn() fails: nothing but the call's result changes
SpawnFailure_KillsOccupant(r) ==
  /\ spawn_pc' = [spawn_pc EXCEPT ![r] = "err"]
  /\ child' = IF current_process = {} THEN child
              ELSE Kill(child, CHOOSE e \in current_process : TRUE, TRUE)
  /\ current_process' = {}
  /\ UNCHANGED <<prompt, argv_p, existing_child, stdinVars, lock, routerVars,
                 stderrVars, waitVars, registryVars, cancelVars>>

SpawnFailure(r) ==
  /\ spawn_pc' = [spawn_pc EXCEPT ![r] = "err"]
  /\ UNCHANGED <<prompt, argv_p, existing_child, procVars, stdinVars, slotVars,
                 routerVars, stderrVars, waitVars, registryVars, cancelVars>>

\* lines 672-677: the launch arguments the prompt adds (-p and the prompt)
PromptArgs_Always(p) == {p}
PromptArgs(p) == IF is_slash_command(p) THEN {p} ELSE {}

\* lines 672-717: route the prompt, spawn the child, start the stdin task
spawn_claude_process(r, p, spawned) ==
  /\ spawn_pc[r] = "idle"
  /\ \A q \in Runs : q < r => spawn_pc[q] # "idle"
  /\ IF ~spawned
     THEN SpawnFailure(r)
     ELSE /\ spawn_pc' = [spawn_pc EXCEPT ![r] = "spawned"]
          /\ prompt' = [prompt EXCEPT ![r] = {p}]
          /\ child' = [child EXCEPT ![r] = "running"]
          /\ argv_p' = [argv_p EXCEPT ![r] = PromptArgs(p)]
          /\ stdin_pc' = [stdin_pc EXCEPT ![r] = "pending"]
          /\ UNCHANGED <<stdin_data, existing_child, slotVars, routerVars, stderrVars,
                         waitVars, registryVars, cancelVars>>

\* lines 686-698: what reaches the pipe: the prompt when it is not passed
\* with -p and write_all succeeds
StdinWritten_Always(args, write_ok, p) == IF write_ok THEN p ELSE {}
StdinWritten(args, write_ok, p) == IF args = {} /\ write_ok THEN p ELSE {}

\* lines 686-717: the stdin task.  Without -p it writes the prompt and then
\* shuts the pipe down (a failed write returns before the shutdown); with -p
\* it only shuts the pipe down.  The pipe end is dropped, hence closed, on
\* every path.
stdin_task(r, write_ok, shutdown_ok) ==
  /\ stdin_pc[r] = "pending"
  /\ argv_p[r] # {} => write_ok
  /\ ~write_ok => shutdown_ok
  /\ stdin_pc' = [stdin_pc EXCEPT ![r] =
                    IF ~write_ok THEN "write_failed"
                    ELSE IF ~shutdown_ok THEN "shutdown_failed" ELSE "done"]
  /\ stdin_data' = [stdin_data EXCEPT ![r] =
                      [written |-> StdinWritten(argv_p[r], write_ok, prompt[r]),
                       closed |-> TRUE]]
  /\ UNCHANGED <<spawnVars, procVars, slotVars, routerVars, stderrVars, waitVars,
                 registryVars, cancelVars, resumeVars>>

\* lines 694 and 709: the stdin task is started with tokio::spawn and its
\* JoinHandle is dropped, so the rest of spawn_claude_process goes on
\* whatever the state of the write
StdinDetached_Awaited(pc) == pc # "pending"
StdinDetached(pc) == TRUE

\* lines 736-745, slot free of an occupant or not: lock, take the occupant
spawn_lock_slot(r) ==
  /\ spawn_pc[r] = "spawned"
  /\ StdinDetached(stdin_pc[r])
  /\ lock = {}
  /\ IF current_process = {}
     THEN /\ current_process' = {r}
          /\ lock' = {}
          /\ spawn_pc' = [spawn_pc EXCEPT ![r] = "ok"]
          /\ StartTasks(r)
          /\ UNCHANGED existing_child
     ELSE /\ existing_child' = [existing_child EXCEPT ![r] = current_process]
          /\ current_process' = Take(current_process)
          /\ lock' = SlotGuard("spawn", r)
          /\ spawn_pc' = [spawn_pc EXCEPT ![r] = "killing"]
          /\ UNCHANGED <<stdout_pc, stderr_pc, wait_pc>>
  /\ UNCHANGED <<prompt, argv_p, procVars, stdinVars, session_id_holder,
                 run_id_holder, n_out, first_init, decode_errors, sid_writes,
                 register_calls, appends, usage_updates, ev_out,
                 n_err, ev_err, taken_child, wait_result, ev_wait, registryVars,
                 cancelVars, resumeVars>>

\* lines 742-745 and 761-982: the occupant's kill completes (result ignored),
\* the new child is stored, the lock released, the tasks started, Ok returned
spawn_store_child(r, kill_ok) ==
  /\ spawn_pc[r] = "killing"
  /\ child' = Kill(child, CHOOSE e \in existing_child[r] : TRUE, kill_ok)
  /\ current_process' = {r}
  /\ lock' = {}
  /\ spawn_pc' = [spawn_pc EXCEPT ![r] = "ok"]
  /\ StartTasks(r)
  /\ UNCHANGED <<prompt, argv_p, existing_child, stdinVars, session_id_holder,
                 run_id_holder, n_out, first_init, decode_errors, sid_writes,
                 register_calls, appends, usage_updates,
                 ev_out, n_err, ev_err, taken_child, wait_result, ev_wait, registryVars,
                 cancelVars, resumeVars>>

\* ------------------------------------------------------------------ stdout task
\* lines 768-770: a valid init line
IsInit(text) ==
  text.json /\ text.type = "system" /\ text.subtype = "init" /\ text.session_id # {}

\* line 772: the captured session id is written only while none is held
CaptureSession_Always(holder, text) == IsInit(text)
CaptureSession(holder, text) == IsInit(text) /\ holder = {}

\* lines 841-842: Value::as_u64 of an optional field: Some only for an
\* unsigned integer
as_u64(field) == {t.val : t \in {x \in field : x.kind = "u64"}}

\* lines 839-844: a usage object with both counts
UsageTotal_MissingAsZero(text) ==
  IF text.json /\ text.usage # {}
  THEN LET u == CHOOSE x \in text.usage : TRUE
           i == as_u64(u.input_tokens)
           o == as_u64(u.output_tokens)
       IN  {(IF i # {} THEN CHOOSE x \in i : TRUE ELSE 0)
              + (IF o # {} THEN CHOOSE x \in o : TRUE ELSE 0)}
  ELSE {}
UsageTotal(text) ==
  IF text.json /\ text.usage # {}
  THEN LET u == CHOOSE x \in text.usage : TRUE
           i == as_u64(u.input_tokens)
           o == as_u64(u.output_tokens)
       IN  IF i # {} /\ o # {}
           THEN {(CHOOSE x \in i : TRUE) + (CHOOSE x \in o : TRUE)}
           ELSE {}
  ELSE {}

\* line 889: the run id the line is appended under is this call's own holder
AppendRunId_Shared(holders, r) ==
  IF \E q \in Runs : holders[q] # {}
  THEN holders[CHOOSE q \in Runs : holders[q] # {} /\ \A p \in Runs : holders[p] # {} => q >= p]
  ELSE {}
AppendRunId(holders, r) == holders[r]

\* lines 893-898: the events of one line, session-scoped first
OutputEvents_GenericOnly(sid, line) == <<EvLine("claude-output", {}, line)>>
OutputEvents(sid, line) ==
  (IF sid # {} THEN <<EvLine("claude-output", sid, line)>> ELSE <<>>)
    \o <<EvLine("claude-output", {}, line)>>

\* the loop emits as it reads: a line's events follow those of earlier lines
EmitInOrder_Detached(log, evs) == evs \o log
EmitInOrder(log, evs) == log \o evs

\* lines 763-899: one iteration of the loop, for the line `text`;
\* reg_ok is the result of register_claude_session
\* lines 797-820: the started event, in the Ok arm of the registration
StartedEvents_EveryLine(registered, sid, pid, run_id) ==
  IF sid # {} THEN <<EvStarted(CHOOSE s \in sid : TRUE, pid, run_id)>> ELSE <<>>
StartedEvents(registered, sid, pid, run_id) ==
  IF registered THEN <<EvStarted(CHOOSE s \in sid : TRUE, pid, run_id)>> ELSE <<>>

stdout_line(r, text, reg_ok) ==
  /\ stdout_pc[r] = "reading"
  /\ LET line == [src |-> r, idx |-> n_out[r] + 1, text |-> text]
         capture == CaptureSession(session_id_holder[r], text)
         sid == IF capture THEN text.session_id ELSE session_id_holder[r]
         registered == capture /\ reg_ok
         reg1 == IF registered
                 THEN register_claude_session(registry, next_run_id,
                                              CHOOSE s \in sid : TRUE, r)
                 ELSE registry
         holders == IF registered
                    THEN [run_id_holder EXCEPT ![r] = {next_run_id}]
                    ELSE run_id_holder
         target == AppendRunId(holders, r)
         started == StartedEvents(registered, sid, r, next_run_id)
         total == UsageTotal(text)
     IN  /\ n_out' = [n_out EXCEPT ![r] = @ + 1]
         /\ session_id_holder' = [session_id_holder EXCEPT ![r] = sid]
         /\ sid_writes' = [sid_writes EXCEPT ![r] = IF capture THEN @ + 1 ELSE @]
         /\ first_init' = [first_init EXCEPT ![r] =
                             IF IsInit(text) /\ @ = {} THEN text.session_id ELSE @]
         /\ register_calls' = [register_calls EXCEPT ![r] = IF capture THEN @ + 1 ELSE @]
         /\ run_id_holder' = holders
         /\ next_run_id' = IF registered THEN next_run_id + 1 ELSE next_run_id
         /\ usage_updates' = [usage_updates EXCEPT ![r] =
                                IF total # {} /\ sid # {}
                                THEN Append(@, [session_id |-> sid, total |-> total])
                                ELSE @]
         /\ registry' = IF target # {}
                        THEN append_live_output(reg1, CHOOSE id \in target : TRUE, line)
                        ELSE reg1
         /\ appends' = [appends EXCEPT ![r] =
                          IF target # {}
                          THEN Append(@, [run_id |-> CHOOSE id \in target : TRUE,
                                          line |-> line])
                          ELSE @]
         /\ ev_out' = [ev_out EXCEPT ![r] =
                         EmitInOrder(@ \o started, OutputEvents(sid, line))]
  /\ UNCHANGED <<stdout_pc, decode_errors, spawnVars, procVars, stdinVars, slotVars,
                 stderrVars,
                 waitVars, cancelVars, resumeVars>>

\* lines 862-869: usage_updates records the update_session_tokens calls that
\* stdout_line hands to the auto-compact state when the application manages one.

\* line 763: next_line() returns Err for a line that is not valid UTF-8
\* (or for a failed read): `while let Ok(Some(line))` does not match, so the
\* loop and the task end; the line is not handed to the loop body
stdout_decode_error(r) ==
  /\ stdout_pc[r] = "reading"
  /\ decode_errors' = [decode_errors EXCEPT ![r] = @ + 1]
  /\ stdout_pc' = [stdout_pc EXCEPT ![r] = "done"]
  /\ UNCHANGED <<session_id_holder, run_id_holder, n_out, first_init, sid_writes,
                 register_calls, appends, usage_updates, ev_out, spawnVars, procVars,
                 stdinVars, slotVars, stderrVars, waitVars, registryVars, cancelVars,
                 resumeVars>>

\* line 763: next_line() returns Ok(None) at end of stream, which ends the
\* loop and the task
stdout_end(r) ==
  /\ stdout_pc[r] = "reading"
  /\ stdout_pc' = [stdout_pc EXCEPT ![r] = "done"]
  /\ UNCHANGED <<session_id_holder, run_id_holder, n_out, first_init, decode_errors,
                 sid_writes,
                 register_calls, appends, usage_updates, ev_out, spawnVars, procVars,
                 stdinVars, slotVars, stderrVars, waitVars, registryVars, cancelVars, resumeVars>>

\* ------------------------------------------------------------------ stderr task
\* lines 909-913: the events of one stderr line, session-scoped first
ErrorEvents_GenericFirst(sid, line) ==
  <<EvLine("claude-error", {}, line)>>
    \o (IF sid # {} THEN <<EvLine("claude-error", sid, line)>> ELSE <<>>)
ErrorEvents(sid, line) ==
  (IF sid # {} THEN <<EvLine("claude-error", sid, line)>> ELSE <<>>)
    \o <<EvLine("claude-error", {}, line)>>

\* lines 906-914: one stderr line
stderr_line(r) ==
  /\ stderr_pc[r] = "reading"
  /\ LET line == [src |-> r, idx |-> n_err[r] + 1, text |-> NotJson]
         sid == session_id_holder[r]
     IN  /\ n_err' = [n_err EXCEPT ![r] = @ + 1]
         /\ ev_err' = [ev_err EXCEPT ![r] = @ \o ErrorEvents(sid, line)]
  /\ UNCHANGED <<stderr_pc, spawnVars, procVars, stdinVars, slotVars, routerVars,
                 waitVars, registryVars, cancelVars, resumeVars>>

stderr_end(r) ==
  /\ stderr_pc[r] = "reading"
  /\ stderr_pc' = [stderr_pc EXCEPT ![r] = "done"]
  /\ UNCHANGED <<n_err, ev_err, spawnVars, procVars, stdinVars, slotVars, routerVars,
                 waitVars, registryVars, cancelVars, resumeVars>>

\* ------------------------------------------------------------------ wait task
\* lines 973-979: unregister the run, clear the slot, release the lock
WaitFinish(r) ==
  /\ registry' = IF run_id_holder[r] # {}
                 THEN unregister_process(registry, CHOOSE id \in run_id_holder[r] : TRUE)
                 ELSE registry
  /\ current_process' = {}
  /\ lock' = {}
  /\ wait_pc' = [wait_pc EXCEPT ![r] = "done"]

\* lines 924-925: both stream tasks are awaited before anything else
Joined_NotAwaited(out_pc, err_pc) == TRUE
Joined(out_pc, err_pc) == out_pc = "done" /\ err_pc = "done"

\* lines 924-925: both stream tasks are joined
wait_join(r) ==
  /\ wait_pc[r] = "join"
  /\ Joined(stdout_pc[r], stderr_pc[r])
  /\ wait_pc' = [wait_pc EXCEPT ![r] = "lock"]
  /\ UNCHANGED <<taken_child, wait_result, ev_wait, spawnVars, procVars, stdinVars,
                 slotVars, routerVars, stderrVars, registryVars, cancelVars, resumeVars>>

\* lines 928-929: lock the slot and take whatever child is in it; with an
\* empty slot the task goes straight to lines 973-979
wait_take_child(r) ==
  /\ wait_pc[r] = "lock"
  /\ lock = {}
  /\ IF current_process = {}
     THEN /\ WaitFinish(r)
          /\ UNCHANGED taken_child
     ELSE /\ taken_child' = [taken_child EXCEPT ![r] = current_process]
          /\ current_process' = Take(current_process)
          /\ lock' = SlotGuard("wait", r)
          /\ wait_pc' = [wait_pc EXCEPT ![r] = "wait"]
          /\ UNCHANGED registry
  /\ UNCHANGED <<next_run_id, wait_result, ev_wait, spawnVars, procVars, stdinVars,
                 routerVars, stderrVars, cancelVars, resumeVars>>

\* line 930: child.wait() returns once the child has ended, with its exit
\* status or with an error
wait_child(r, ok) ==
  /\ wait_pc[r] = "wait"
  /\ LET c == CHOOSE x \in taken_child[r] : TRUE
     IN  /\ child[c] # "running"
         /\ wait_result' = [wait_result EXCEPT ![r] = IF ok THEN child[c] ELSE "err"]
  /\ wait_pc' = [wait_pc EXCEPT ![r] = "notify"]
  /\ UNCHANGED <<taken_child, ev_wait, spawnVars, procVars, stdinVars, slotVars,
                 routerVars, stderrVars, registryVars, cancelVars, resumeVars>>

\* lines 940, 945, 948 and 959, 965, 968: the value the wait task reports
WaitSuccess_AlwaysTrue(result) == TRUE
WaitSuccess(result) == StatusSuccess(result)

\* lines 935-948 and 954-968: the events of the wait task
WaitEvents_GenericFirst(sid, success) ==
  <<EvBool("claude-complete", {}, success)>>
    \o (IF sid # {}
        THEN <<EvStopped(CHOOSE s \in sid : TRUE, success),
               EvBool("claude-complete", sid, success)>>
        ELSE <<>>)
WaitEvents(sid, success) ==
  (IF sid # {}
   THEN <<EvStopped(CHOOSE s \in sid : TRUE, success),
          EvBool("claude-complete", sid, success)>>
   ELSE <<>>)
    \o <<EvBool("claude-complete", {}, success)>>

\* lines 934-979: after the delay, emit the terminal events, unregister the
\* run, clear the slot and release the lock
wait_notify(r) ==
  /\ wait_pc[r] = "notify"
  /\ ev_wait' = [ev_wait EXCEPT ![r] =
                   @ \o WaitEvents(session_id_holder[r], WaitSuccess(wait_result[r]))]
  /\ WaitFinish(r)
  /\ UNCHANGED <<next_run_id, taken_child, wait_result, spawnVars, procVars, stdinVars,
                 routerVars, stderrVars, cancelVars, resumeVars>>

\* ------------------------------------------------------------------ cancel_claude_execution
\* lines 523-555: method 1, the registry; kill_result is what kill_process
\* returns: "true", "false" or "err"
\* line 558: `if !killed`, method 2 is entered when method 1 did not kill
AfterRegistry_Always(was_killed) == "legacy"
AfterRegistry(was_killed) == IF was_killed THEN "emit" ELSE "legacy"

cancel_registry(c, sid, kill_result) ==
  /\ cancel_pc[c] = "idle"
  /\ \A q \in Cancels : q < c => cancel_pc[q] # "idle"
  /\ cancel_sid' = [cancel_sid EXCEPT ![c] = sid]
  /\ LET found == IF sid = {} THEN {}
                  ELSE get_claude_session_by_id(registry, CHOOSE s \in sid : TRUE)
     IN  IF found = {}
         THEN /\ kill_result = "false"
              /\ cancel_pc' = [cancel_pc EXCEPT ![c] = AfterRegistry(FALSE)]
              /\ UNCHANGED <<child, killed, attempted_methods, cancel_found, tried>>
         ELSE \E run_id \in found :
                /\ child' = Kill(child, registry[run_id].pid, kill_result = "true")
                /\ killed' = [killed EXCEPT ![c] = (kill_result = "true")]
                /\ attempted_methods' = [attempted_methods EXCEPT ![c] = <<"registry">>]
                /\ cancel_found' = [cancel_found EXCEPT ![c] = {run_id}]
                /\ tried' = [tried EXCEPT ![c] =
                               <<[method |-> "registry", ok |-> kill_result = "true"]>>]
                /\ cancel_pc' = [cancel_pc EXCEPT ![c] =
                                   AfterRegistry(kill_result = "true")]
  /\ UNCHANGED <<cancel_child, ev_cancel, spawnVars, stdinVars, slotVars, routerVars,
                 stderrVars, waitVars, registryVars, resumeVars>>

\* lines 558-562 and 598-600: method 2, lock the slot and take its occupant
cancel_take_child(c) ==
  /\ cancel_pc[c] = "legacy"
  /\ lock = {}
  /\ IF current_process = {}
     THEN /\ cancel_pc' = [cancel_pc EXCEPT ![c] = "emit"]
          /\ UNCHANGED <<cancel_child, slotVars>>
     ELSE /\ cancel_child' = [cancel_child EXCEPT ![c] = current_process]
          /\ current_process' = Take(current_process)
          /\ lock' = SlotGuard("cancel", c)
          /\ cancel_pc' = [cancel_pc EXCEPT ![c] = "legacy_kill"]
  /\ UNCHANGED <<cancel_sid, killed, attempted_methods, cancel_found, tried, ev_cancel,
                 spawnVars, procVars, stdinVars, routerVars, stderrVars, waitVars,
                 registryVars, resumeVars>>

\* lines 571-597: child.kill(), and on its failure method 3,
\* platform::kill_process_tree(pid); then the lock is released
cancel_kill_child(c, kill_ok, tree_ok) ==
  /\ cancel_pc[c] = "legacy_kill"
  /\ kill_ok => tree_ok
  /\ LET x == CHOOSE e \in cancel_child[c] : TRUE
     IN  child' = Kill(child, x, kill_ok \/ tree_ok)
  /\ killed' = [killed EXCEPT ![c] = kill_ok \/ tree_ok]
  /\ attempted_methods' = [attempted_methods EXCEPT ![c] = Append(@, "claude_state")]
  /\ tried' = [tried EXCEPT ![c] =
                 @ \o <<[method |-> "claude_state", ok |-> kill_ok]>>
                   \o (IF kill_ok THEN <<>>
                       ELSE <<[method |-> "kill_process_tree", ok |-> tree_ok]>>)]
  /\ lock' = {}
  /\ cancel_pc' = [cancel_pc EXCEPT ![c] = "emit"]
  /\ UNCHANGED <<cancel_sid, cancel_child, cancel_found, ev_cancel, current_process,
                 spawnVars, stdinVars, routerVars, stderrVars, waitVars, registryVars, resumeVars>>

\* lines 611 and 617: the completion value a cancel emits
CancelComplete_Killed(was_killed) == was_killed
CancelComplete(was_killed) == FALSE

\* line 625: the result of the call
CancelResult_ErrWhenNothingFound(was_killed, methods) ==
  IF ~was_killed /\ methods = <<>> THEN "err" ELSE "ok"
CancelResult(was_killed, methods) == "ok"

\* lines 608-617: the events of a cancel
CancelEvents_GenericOnly(sid, was_killed) ==
  <<EvBool("claude-cancelled", {}, TRUE),
    EvBool("claude-complete", {}, CancelComplete(was_killed))>>
CancelEvents(sid, was_killed) ==
  (IF sid # {}
   THEN <<EvBool("claude-cancelled", sid, TRUE),
          EvBool("claude-complete", sid, CancelComplete(was_killed))>>
   ELSE <<>>)
    \o <<EvBool("claude-cancelled", {}, TRUE),
         EvBool("claude-complete", {}, CancelComplete(was_killed))>>

\* lines 603-625: emit the cancellation events and return
cancel_emit(c) ==
  /\ cancel_pc[c] = "emit"
  /\ ev_cancel' = [ev_cancel EXCEPT ![c] = @ \o CancelEvents(cancel_sid[c], killed[c])]
  /\ cancel_pc' = [cancel_pc EXCEPT ![c] = CancelResult(killed[c], attempted_methods[c])]
  /\ UNCHANGED <<cancel_sid, killed, attempted_methods, cancel_child, cancel_found,
                 tried, spawnVars, procVars, stdinVars, slotVars, routerVars, stderrVars,
                 waitVars, registryVars, resumeVars>>

\* ------------------------------------------------------------------ commands
\* execute_claude_code / continue_claude_code called by the frontend: the
\* command is built and handed to spawn_claude_process
execute_claude_code(r, p, spawned) ==
  /\ spawn_claude_process(r, p, spawned)
  /\ UNCHANGED resumeVars

\* lines 638-648: get_claude_session_output, on the registry as it is.  The
\* buffered output is kept as the sequence of its lines.
get_claude_session_output_ErrUnknown(reg, session_id) ==
  LET found == get_claude_session_by_id(reg, session_id)
  IN  IF found = {}
      THEN [ok |-> FALSE, out |-> <<>>]
      ELSE [ok |-> TRUE, out |-> get_live_output(reg, CHOOSE id \in found : TRUE)]
get_claude_session_output(reg, session_id) ==
  LET found == get_claude_session_by_id(reg, session_id)
  IN  IF found = {}
      THEN [ok |-> TRUE, out |-> <<>>]
      ELSE [ok |-> TRUE, out |-> get_live_output(reg, CHOOSE id \in found : TRUE)]

\* lines 479-490: where resume_claude_code goes on the result of the resume
\* attempt: Ok is returned, Err starts the fallback
AfterResume_NoFallback(spawned) == IF spawned THEN "resume_await" ELSE "err"
AfterResume(spawned) == IF spawned THEN "resume_await" ELSE "fallback"

\* lines 495-504: the result of continue_claude_code is the result of the call
AfterFallback_Retry(spawned) == IF spawned THEN "continue_await" ELSE "fallback"
AfterFallback(spawned) == IF spawned THEN "continue_await" ELSE "err"

\* a mode started by resume_claude_code: its leading arguments, its prompt
\* and the run spawn_claude_process was called for, if it was called
Attempt(args, p, run) == [args |-> args, prompt |-> p, run |-> run]

\* lines 401-490: resume_claude_code up to the resume attempt.  env_ok: the
\* binary was found and the command built (the `?` of lines 430 and 470-476
\* return the error at once); the attempt has --resume <session_id> in front
resume_claude_code(r, p, env_ok, spawned) ==
  /\ resume_pc = "idle"
  /\ UNCHANGED <<cmd_env, dropped>>
  /\ IF ~env_ok
     THEN /\ resume_pc' = "err"
          /\ UNCHANGED <<resume_attempts, spawnVars, procVars, stdinVars, slotVars,
                         routerVars, stderrVars, waitVars, registryVars, cancelVars>>
     ELSE /\ spawn_claude_process(r, p, spawned)
          /\ resume_attempts' = <<Attempt("--resume", p, {r})>>
          /\ resume_pc' = AfterResume(spawned)

\* lines 489-504 and 341-396: the fallback, continue_claude_code with the
\* same prompt: -c in front, no --resume
resume_fallback(r, env_ok, spawned) ==
  /\ resume_pc = "fallback"
  /\ UNCHANGED <<cmd_env, dropped>>
  /\ IF ~env_ok
     THEN /\ resume_pc' = "err"
          /\ resume_attempts' =
               Append(resume_attempts, Attempt("-c", resume_attempts[1].prompt, {}))
          /\ UNCHANGED <<spawnVars, procVars, stdinVars, slotVars, routerVars,
                         stderrVars, waitVars, registryVars, cancelVars>>
     ELSE /\ spawn_claude_process(r, resume_attempts[1].prompt, spawned)
          /\ resume_attempts' =
               Append(resume_attempts, Attempt("-c", resume_attempts[1].prompt, {r}))
          /\ resume_pc' = AfterFallback(spawned)

\* line 982: spawn_claude_process of the last attempt returns Ok(()), and so
\* does resume_claude_code
resume_return ==
  /\ resume_pc \in {"resume_await", "continue_await"}
  /\ \A r \in resume_attempts[Len(resume_attempts)].run : spawn_pc[r] = "ok"
  /\ resume_pc' = "ok"
  /\ UNCHANGED <<cmd_env, dropped, resume_attempts, spawnVars, procVars, stdinVars, slotVars, routerVars,
                 stderrVars, waitVars, registryVars, cancelVars>>

\* ------------------------------------------------------------------ environment
\* Environment variable names: one inherited by name, one inherited by the
\* ANTHROPIC_ prefix, one that is not on the list of lines 132-154.
EnvKeys == {"PATH", "ANTHROPIC_MODEL", "FOO"}
NoEnv == [k \in EnvKeys |-> {}]

\* lines 132-154: the names create_command_with_env copies from std::env::vars
Inheritable(key) == key = "PATH" \/ key = "ANTHROPIC_MODEL"

\* the directory of a claude binary installed under .nvm/versions/node
NodeBin == "nvm_bin"

\* tokio Command::env: an explicit value for the key, replacing an earlier one
SetEnv(envs, key, value) == [envs EXCEPT ![key] = {value}]

\* lines 130-159: the inherited variables that are set explicitly
InheritEnv(envs, parent) ==
  [k \in EnvKeys |-> IF Inheritable(k) /\ parent[k] # {} THEN parent[k] ELSE envs[k]]

\* lines 162-177: PATH with the binary's directory in front, when the binary
\* is under an NVM directory and PATH does not hold that directory; PATH is
\* a sequence of directories, empty when unset (unwrap_or_default)
NvmPath(envs, parent, nvm) ==
  LET current_path == IF parent["PATH"] = {} THEN <<>>
                      ELSE CHOOSE v \in parent["PATH"] : TRUE
      contains == \E i \in 1..Len(current_path) : current_path[i] = NodeBin
  IN  IF nvm /\ ~contains
      THEN SetEnv(envs, "PATH", <<NodeBin>> \o current_path)
      ELSE envs

\* lines 181-200: the string values of the env object of settings.json
SettingsEnv(envs, settings) ==
  [k \in EnvKeys |->
     LET strs == {j.val : j \in {x \in settings[k] : x.kind = "str"}}
     IN  IF strs # {} THEN strs ELSE envs[k]]

\* lines 98-204: create_command_with_env, the explicit variables of the Command
create_command_with_env_SettingsFirst(parent, nvm, settings) ==
  NvmPath(InheritEnv(SettingsEnv(NoEnv, settings), parent), parent, nvm)
create_command_with_env(parent, nvm, settings) ==
  SettingsEnv(NvmPath(InheritEnv(NoEnv, parent), parent, nvm), settings)

\* lines 223-237: create_windows_command sets ANTHROPIC_MODEL from the model
create_windows_command(parent, nvm, settings, model) ==
  LET cmd == create_command_with_env(parent, nvm, settings)
  IN  IF model # {} THEN SetEnv(cmd, "ANTHROPIC_MODEL", CHOOSE m \in model : TRUE)
      ELSE cmd

\* what the spawned child sees: the Command's explicit variables over the
\* environment of the parent process (the Command is never env_clear'ed)
ChildEnv(parent, envs) == [k \in EnvKeys |-> IF envs[k] # {} THEN envs[k] ELSE parent[k]]

\* lines 210-218: create_system_command, for one parent environment, binary
\* location, settings.json and requested model
create_system_command(parent, nvm, settings, model) ==
  /\ cmd_env' = {[parent |-> parent, nvm |-> nvm, settings |-> settings,
                  model |-> model,
                  child |-> ChildEnv(parent,
                                     create_windows_command(parent, nvm, settings, model))]}
  /\ UNCHANGED <<resume_pc, resume_attempts, dropped, spawnVars, procVars, stdinVars,
                 slotVars, routerVars, stderrVars, waitVars, registryVars, cancelVars>>

\* ------------------------------------------------------------------ application exit
\* lines 37 and 54: the cleanup runs on the current runtime handle, or on a
\* temporary runtime when one can be created; otherwise nothing runs
DropCleans_Never(runtime) == FALSE
DropCleans(runtime) == runtime \in {"current", "temporary"}

\* lines 30-76: Drop for ClaudeProcessState: lock the slot, take the child
\* in it and kill it; the result of the kill is logged
drop_state(runtime, kill_ok) ==
  /\ dropped = {}
  /\ IF DropCleans(runtime)
     THEN /\ lock = {}
          /\ current_process' = Take(current_process)
          /\ child' = IF current_process = {} THEN child
                      ELSE Kill(child, CHOOSE x \in current_process : TRUE, kill_ok)
     ELSE UNCHANGED <<current_process, child>>
  /\ dropped' = {[runtime |-> runtime, occupant |-> current_process,
                  kill_ok |-> kill_ok]}
  /\ UNCHANGED <<lock, resume_pc, resume_attempts, cmd_env, spawnVars, stdinVars,
                 routerVars, stderrVars, waitVars, registryVars, cancelVars>>

\* ------------------------------------------------------------------ specifications
Bool == {TRUE, FALSE}
OptSid == {{}} \cup {{s} : s \in SIDs}

\* calls of the two commands made so far
CallsStarted ==
  Cardinality({r \in Runs : spawn_pc[r] # "idle"})
    + Cardinality({c \in Cancels : cancel_pc[c] # "idle"})

\* in the lifecycle specification the child of run r announces SidOf(r)
SidOf(r) == IF r = 1 THEN "s1" ELSE "s2"
LifeLines(r) == {InitLine(SidOf(r)), NotJson}

\* Sessions started, cancelled and ended in every interleaving.  A stream may
\* end at any time (the child may close it before it exits); stderr carries
\* no lines here, and its end is taken after that of stdout, which it
\* commutes with.
Next ==
  \/ \E r \in Runs, ok \in Bool :
       CallsStarted < MaxCalls /\ execute_claude_code(r, PromptHello, ok)
  \/ \E r \in Runs : spawn_lock_slot(r)
  \/ \E r \in Runs, k \in Bool : spawn_store_child(r, k)
  \/ \E r \in Runs, s \in Bool : child_exit(r, s)
  \/ \E r \in Runs : \E t \in LifeLines(r) :
       n_out[r] < MaxLifeLines /\ stdout_line(r, t, TRUE)
  \/ \E r \in Runs : stdout_end(r)
  \/ \E r \in Runs : stdout_pc[r] = "done" /\ stderr_end(r)
  \/ \E r \in Runs : wait_join(r)
  \/ \E r \in Runs : wait_take_child(r)
  \/ \E r \in Runs, ok \in Bool : wait_child(r, ok)
  \/ \E r \in Runs : wait_notify(r)
  \/ \E c \in Cancels, s \in OptSid, k \in {"true", "false"} :
       CallsStarted < MaxCalls /\ cancel_registry(c, s, k)
  \/ \E c \in Cancels : cancel_take_child(c)
  \/ \E c \in Cancels, k \in Bool, t \in Bool : cancel_kill_child(c, k, t)
  \/ \E c \in Cancels : cancel_emit(c)

Spec == Init /\ [][Next]_vars

\* The output router of concurrently running sessions, line by line: every
\* class of stdout line, registration failures, stderr lines.
RouterNext ==
  \/ \E r \in Runs : execute_claude_code(r, PromptHello, TRUE)
  \/ \E r \in Runs : spawn_lock_slot(r)
  \/ \E r \in Runs : spawn_store_child(r, TRUE)
  \/ \E r \in Runs : child_exit(r, TRUE)
  \/ \E r \in Runs, t \in RouterLineSet, g \in Bool :
       n_out[r] < MaxLines /\ stdout_line(r, t, g)
  \/ \E r \in Runs : stdout_end(r)
  \/ \E r \in Runs : stdout_pc[r] = "done" /\ stderr_end(r)
  \/ \E r \in Runs : wait_join(r)
  \/ \E r \in Runs : wait_take_child(r)
  \/ \E r \in Runs : wait_child(r, TRUE)
  \/ \E r \in Runs : wait_notify(r)

RouterSpec == Init /\ [][RouterNext]_vars

\* The stdin feeder of one session, for every prompt.
FeederNext ==
  \/ \E p \in AllPrompts \cup ScenarioPrompts, ok \in Bool :
       execute_claude_code(1, p, ok)
  \/ \E w \in Bool, d \in Bool : stdin_task(1, w, d)
  \/ spawn_lock_slot(1)

FeederSpec == Init /\ [][FeederNext]_vars

\* One session with its two streams, cancelled at any moment: stdout and
\* stderr lines are read while cancels run, before and after the init line.
StreamLineSet == {InitLine("s1"), NotJson}

StreamNext ==
  \/ execute_claude_code(1, PromptHello, TRUE)
  \/ spawn_lock_slot(1)
  \/ \E s \in Bool : child_exit(1, s)
  \/ \E t \in StreamLineSet : n_out[1] < MaxLines /\ stdout_line(1, t, TRUE)
  \/ stdout_end(1)
  \/ stdout_decode_error(1)
  \/ n_err[1] < MaxErrLines /\ stderr_line(1)
  \/ stderr_end(1)
  \/ wait_join(1)
  \/ wait_take_child(1)
  \/ \E ok \in Bool : wait_child(1, ok)
  \/ wait_notify(1)
  \/ \E c \in Cancels, s \in OptSid, k \in {"true", "false", "err"} :
       cancel_registry(c, s, k)
  \/ \E c \in Cancels : cancel_take_child(c)
  \/ \E c \in Cancels, k \in Bool, t \in Bool : cancel_kill_child(c, k, t)
  \/ \E c \in Cancels : cancel_emit(c)

StreamSpec == Init /\ [][StreamNext]_vars

\* One call of resume_claude_code and the sessions it starts: the resume
\* attempt, its fallback, and the tasks of whichever was spawned.
ResumeNext ==
  \/ \E r \in Runs, p \in {PromptHello, PromptClear}, e \in Bool, ok \in Bool :
       resume_claude_code(r, p, e, ok)
  \/ \E r \in Runs, e \in Bool, ok \in Bool : resume_fallback(r, e, ok)
  \/ resume_return
  \/ \E r \in Runs : spawn_lock_slot(r)
  \/ \E r \in Runs, s \in Bool : child_exit(r, s)
  \/ \E r \in Runs : \E t \in LifeLines(r) :
       n_out[r] < MaxLines /\ stdout_line(r, t, TRUE)
  \/ \E r \in Runs : stdout_end(r)
  \/ \E r \in Runs : stderr_end(r)
  \/ \E r \in Runs : wait_join(r)
  \/ \E r \in Runs : wait_take_child(r)
  \/ \E r \in Runs, ok \in Bool : wait_child(r, ok)
  \/ \E r \in Runs : wait_notify(r)

ResumeSpec == Init /\ [][ResumeNext]_vars

\* One session and the cancels issued against it, with the scheduling the
\* runtime gives: a task or a call that can take its next step eventually
\* takes it.  Nothing makes the frontend issue a command, and nothing makes
\* the child exit by itself.
\* One run whose stdout carries init and usage lines.
UsageLineSet == {InitLine("s1"), UsageLine, UsageLineFloat, UsageLineNoOutput}
UsageNext ==
  \/ execute_claude_code(1, PromptHello, TRUE)
  \/ spawn_lock_slot(1)
  \/ \E t \in UsageLineSet, g \in Bool :
       n_out[1] < MaxUsageLines /\ stdout_line(1, t, g)
  \/ stdout_end(1)

UsageSpec == Init /\ [][UsageNext]_vars

\* One run with its stdin task, its readers, its wait task and one cancel.
PipeNext ==
  \/ \E p \in {PromptHello, PromptClear} : execute_claude_code(1, p, TRUE)
  \/ \E w \in Bool, d \in Bool : stdin_task(1, w, d)
  \/ spawn_lock_slot(1)
  \/ \E s \in Bool : child_exit(1, s)
  \/ \E t \in LifeLines(1) : n_out[1] < MaxLifeLines /\ stdout_line(1, t, TRUE)
  \/ stdout_end(1)
  \/ n_err[1] < MaxErrLines /\ stderr_line(1)
  \/ stderr_end(1)
  \/ wait_join(1)
  \/ wait_take_child(1)
  \/ \E ok \in Bool : wait_child(1, ok)
  \/ wait_notify(1)
  \/ \E s \in OptSid, k \in {"true", "false"} : cancel_registry(1, s, k)
  \/ cancel_take_child(1)
  \/ \E k \in Bool, t \in Bool : cancel_kill_child(1, k, t)
  \/ cancel_emit(1)

PipeSpec == Init /\ [][PipeNext]_vars

\* Commands built for every parent environment, binary location, settings
\* and model.
JsonStr(v) == [kind |-> "str", val |-> v]
JsonNum == [kind |-> "num", val |-> <<>>]
ParentEnvs ==
  {[k \in EnvKeys |-> IF k = "PATH" THEN pa ELSE IF k = "FOO" THEN fo ELSE am] :
     pa \in {{}, {<<"usr">>}, {<<"nvm_bin", "usr">>}},
     am \in {{}, {<<"old">>}}, fo \in {{}, {<<"x">>}}}
SettingsEnvs ==
  {[k \in EnvKeys |-> IF k = "PATH" THEN pa ELSE IF k = "FOO" THEN fo ELSE am] :
     pa \in {{}, {JsonStr(<<"cfg">>)}, {JsonNum}},
     am \in {{}, {JsonStr(<<"cfg_model">>)}}, fo \in {{}, {JsonStr(<<"y">>)}}}
Models == {{}, {<<"sonnet">>}}
EnvNext ==
  \E pe \in ParentEnvs, nvm \in Bool, se \in SettingsEnvs, m \in Models :
    create_system_command(pe, nvm, se, m)

EnvSpec == Init /\ [][EnvNext]_vars

\* Sessions started and ended, and the application exiting at any moment.
Runtimes == {"current", "temporary", "none"}
DropNext ==
  \/ \E r \in Runs, ok \in Bool : execute_claude_code(r, PromptHello, ok)
  \/ \E r \in Runs : spawn_lock_slot(r)
  \/ \E r \in Runs, k \in Bool : spawn_store_child(r, k)
  \/ \E r \in Runs, s \in Bool : child_exit(r, s)
  \/ \E r \in Runs : stdout_end(r)
  \/ \E r \in Runs : stdout_pc[r] = "done" /\ stderr_end(r)
  \/ \E r \in Runs : wait_join(r)
  \/ \E r \in Runs : wait_take_child(r)
  \/ \E r \in Runs, ok \in Bool : wait_child(r, ok)
  \/ \E r \in Runs : wait_notify(r)
  \/ \E rt \in Runtimes, k \in Bool : drop_state(rt, k)

DropSpec == Init /\ [][DropNext]_vars

CancelLiveTasks ==
  \/ spawn_lock_slot(1)
  \/ \E t \in LifeLines(1) : n_out[1] < MaxLifeLines /\ stdout_line(1, t, TRUE)
  \/ stdout_end(1)
  \/ stderr_end(1)
  \/ wait_join(1)
  \/ wait_take_child(1)
  \/ \E ok \in Bool : wait_child(1, ok)
  \/ wait_notify(1)
  \/ \E c \in Cancels : cancel_take_child(c)
  \/ \E c \in Cancels, k \in Bool, t \in Bool : cancel_kill_child(c, k, t)
  \/ \E c \in Cancels : cancel_emit(c)

CancelLiveNext ==
  \/ execute_claude_code(1, PromptHello, TRUE)
  \/ \E s \in Bool : child_exit(1, s)
  \/ \E c \in Cancels, s \in OptSid, k \in {"true", "false", "err"} :
       cancel_registry(c, s, k)
  \/ CancelLiveTasks

CancelLiveSpec == Init /\ [][CancelLiveNext]_vars /\ WF_vars(CancelLiveTasks)

\* ------------------------------------------------------------------ claims
Emitted(log, name, scope) ==
  \E i \in 1..Len(log) : log[i].name = name /\ log[i].scope = scope

\* claude-complete:{sid} was emitted by some wait task or by some cancel
CompleteEmittedFor(sid) ==
  \/ \E r \in Runs : Emitted(ev_wait[r], "claude-complete", sid)
  \/ \E c \in Cancels : Emitted(ev_cancel[c], "claude-complete", sid)

\* every call has returned, every task has ended, every child has exited
Quiescent ==
  /\ \A r \in Runs :
       \/ spawn_pc[r] \in {"idle", "err"}
       \/ spawn_pc[r] = "ok" /\ wait_pc[r] = "done" /\ child[r] # "running"
  /\ \A c \in Cancels : cancel_pc[c] \in {"idle", "ok"}

\* C1: every session whose id was captured from an init line and registered
\* has had claude-complete:{session_id} emitted, by its wait task or by a
\* cancel, once every child has exited and every task and call has finished.
C1_RegisteredSessionGetsComplete ==
  Quiescent =>
    \A r \in Runs :
      run_id_holder[r] # {} => CompleteEmittedFor(session_id_holder[r])

\* C2: claude-complete:{session_id} of a run is never emitted both by that
\* run's wait task and by a cancel call that looked the run up in the
\* registry or took its child from the slot.
C2_TerminalEmittedByOneSide ==
  \A r \in Runs, c \in Cancels :
    ~ /\ session_id_holder[r] # {}
      /\ Emitted(ev_wait[r], "claude-complete", session_id_holder[r])
      /\ Emitted(ev_cancel[c], "claude-complete", session_id_holder[r])
      /\ \/ cancel_found[c] # {} /\ cancel_found[c] = run_id_holder[r]
         \/ cancel_child[c] = {r}

\* the events of a log with the given name and scope, in order
Select(log, name, scope) ==
  SelectSeq(log, LAMBDA e : e.name = name /\ e.scope = scope)

\* the stream positions of the lines carried by a log of line events
LineIdx(log) == [i \in 1..Len(log) |-> (CHOOSE l \in log[i].line : TRUE).idx]

Increasing(q) == \A i, j \in 1..Len(q) : i < j => q[i] < q[j]

\* C3: however many valid init lines a run's stdout carries, the captured
\* session id is written at most once and is that of the first valid init
\* line, register_claude_session is called at most once, and the one started
\* event of the run carries that session id and the run id held since.
C3_SinglePromotion ==
  \A r \in Runs :
    /\ sid_writes[r] <= 1
    /\ register_calls[r] <= 1
    /\ session_id_holder[r] = first_init[r]
    /\ LET started == Select(ev_out[r], "claude-session-state", {})
       IN  /\ Len(started) <= 1
           /\ Len(started) = 1 <=> run_id_holder[r] # {}
           /\ \A i \in 1..Len(started) : \A x \in started[i].ids :
                {x.session_id} = first_init[r] /\ {x.run_id} = run_id_holder[r]

\* a run that read two valid init lines announcing different session ids
C3_Witness ==
  \E r \in Runs :
    /\ Len(appends[r]) = 2
    /\ appends[r][1].line.text = InitLine("s1")
    /\ appends[r][2].line.text = InitLine("s2")
    /\ session_id_holder[r] = {"s1"}
    /\ register_calls[r] = 1

\* C4: the lines of one stdout stream are appended to the run's live-output
\* buffer and emitted, on claude-output:{session_id} and on claude-output,
\* in stream order: the generic events are those of lines 1..n in that
\* order, and the buffer and the session-scoped events follow stream order.
C4_OrderPreserved ==
  \A r \in Runs :
    /\ LineIdx(Select(ev_out[r], "claude-output", {})) = [i \in 1..n_out[r] |-> i]
    /\ session_id_holder[r] # {} =>
         Increasing(LineIdx(Select(ev_out[r], "claude-output", session_id_holder[r])))
    /\ \A id \in run_id_holder[r] :
         Increasing([i \in 1..Len(get_live_output(registry, id)) |->
                       get_live_output(registry, id)[i].idx])

\* a registered run whose buffer and events hold two lines
C4_Witness ==
  \E r \in Runs : \E id \in run_id_holder[r] :
    /\ Len(get_live_output(registry, id)) = 2
    /\ Len(Select(ev_out[r], "claude-output", session_id_holder[r])) = 2
    /\ Len(Select(ev_out[r], "claude-output", {})) = 2

\* C5: every append_live_output call of a run's stdout task names that run's
\* own run id, and the buffer of a registered run holds exactly the lines its
\* own stdout task appended: no line of another run, none missing.
C5_BufferIsolation ==
  \A r \in Runs :
    /\ \A i \in 1..Len(appends[r]) :
         {appends[r][i].run_id} = run_id_holder[r] /\ appends[r][i].line.src = r
    /\ \A id \in run_id_holder[r] :
         id \in DOMAIN registry =>
           registry[id].live_output = [i \in 1..Len(appends[r]) |-> appends[r][i].line]

\* two runs registered at the same time, both reading, each with a buffer
\* holding a line of its own
C5_Witness ==
  \E a, b \in Runs :
    /\ a # b
    /\ stdout_pc[a] = "reading" /\ stdout_pc[b] = "reading"
    /\ \E ia \in run_id_holder[a], ib \in run_id_holder[b] :
         /\ ia \in DOMAIN registry /\ ib \in DOMAIN registry
         /\ Len(registry[ia].live_output) = 2
         /\ Len(registry[ib].live_output) = 1

\* C6: a cancel call never returns an error, and a call that has returned
\* has emitted claude-cancelled(true) then claude-complete(false) on the
\* generic channel, preceded by the same pair on the session-scoped channel
\* when a session id was supplied, whatever it found and whatever the kills
\* returned.
C6_CancelAlwaysNotifies ==
  \A c \in Cancels :
    /\ cancel_pc[c] # "err"
    /\ cancel_pc[c] = "ok" =>
         ev_cancel[c] =
           (IF cancel_sid[c] # {}
            THEN <<EvBool("claude-cancelled", cancel_sid[c], TRUE),
                   EvBool("claude-complete", cancel_sid[c], FALSE)>>
            ELSE <<>>)
             \o <<EvBool("claude-cancelled", {}, TRUE),
                  EvBool("claude-complete", {}, FALSE)>>

\* two returned cancels: one took a child from the slot and every kill of it
\* failed, the other named a session the registry does not hold and found
\* the slot empty
C6_Witness ==
  \E c, d \in Cancels :
    /\ cancel_pc[c] = "ok" /\ cancel_pc[d] = "ok"
    /\ cancel_sid[c] # {} /\ cancel_child[c] # {} /\ ~killed[c]
    /\ cancel_sid[d] # {} /\ cancel_found[d] = {} /\ cancel_child[d] = {}
    /\ attempted_methods[d] = <<>>
    /\ Len(ev_cancel[c]) = 4 /\ Len(ev_cancel[d]) = 4

\* the completion values a log carries, in order
CompleteValues(log) ==
  LET done == SelectSeq(log, LAMBDA e : e.name = "claude-complete")
  IN  [i \in 1..Len(done) |-> done[i].ok]

\* C7: of two cancel calls for the same session, the later one does not fail
\* either, emits the cancelled / complete pair as well, and emits the same
\* completion values as the earlier one.
C7_CancelTwiceSameOutcome ==
  \A c, d \in Cancels :
    (c < d /\ cancel_pc[c] = "ok" /\ cancel_pc[d] # "idle"
       /\ cancel_sid[c] = cancel_sid[d]) =>
      /\ cancel_pc[d] # "err"
      /\ cancel_pc[d] = "ok" =>
           /\ Emitted(ev_cancel[d], "claude-cancelled", {})
           /\ Emitted(ev_cancel[d], "claude-complete", {})
           /\ CompleteValues(ev_cancel[d]) = CompleteValues(ev_cancel[c])

\* the first cancel killed the session's process through the registry, the
\* second found neither a registry entry nor a child in the slot
C7_Witness ==
  \E c, d \in Cancels :
    /\ c < d /\ cancel_pc[c] = "ok" /\ cancel_pc[d] = "ok"
    /\ cancel_sid[c] # {} /\ cancel_sid[c] = cancel_sid[d]
    /\ killed[c] /\ cancel_found[c] # {}
    /\ ~killed[d] /\ cancel_found[d] = {} /\ cancel_child[d] = {}

\* the positions of a prompt's runs that are not whitespace
NonWhitespace(p) == {i \in 1..Len(p) : ~IsWhitespace(p[i][1])}

RECURSIVE BytesBetween(_, _, _)
BytesBetween(p, lo, hi) ==
  IF lo > hi THEN 0 ELSE p[lo][2] * Width(p[lo][1]) + BytesBetween(p, lo + 1, hi)

\* between its first and last non-whitespace characters the prompt starts
\* with '/', has no newline and is shorter than 256 bytes
SlashShape(p) ==
  /\ NonWhitespace(p) # {}
  /\ LET lo == CHOOSE i \in NonWhitespace(p) : \A j \in NonWhitespace(p) : i <= j
         hi == CHOOSE i \in NonWhitespace(p) : \A j \in NonWhitespace(p) : i >= j
     IN  /\ p[lo][1] = "/"
         /\ \A i \in lo..hi : p[i][1] # "\n"
         /\ BytesBetween(p, lo, hi) < SlashMaxLen

\* C8: the prompt goes by launch argument (-p and the prompt) iff, trimmed,
\* it starts with '/', has no newline and is shorter than 256 bytes;
\* otherwise no -p is added and the stdin task writes the prompt; never both.
\* "/clear" goes by argument, 10,000 characters without a leading '/' and
\* "/help\nbody" go by stdin.
C8_PromptRoute ==
  \A r \in Runs : \A p \in prompt[r] :
    /\ argv_p[r] = (IF SlashShape(p) THEN {p} ELSE {})
    /\ stdin_data[r].written \in {{}, {p}}
    /\ ~(argv_p[r] # {} /\ stdin_data[r].written # {})
    /\ (argv_p[r] = {} /\ stdin_pc[r] \in {"done", "shutdown_failed"}) =>
         stdin_data[r].written = {p}
    /\ p = PromptClear => argv_p[r] = {p}
    /\ p \in {PromptLong, PromptHelpBody} => argv_p[r] = {}

\* a prompt that is a slash command only once trimmed, one byte under the
\* threshold, went by argument and the stdin task has closed the pipe
C8_Witness ==
  LET p == << <<" ", 1>>, <<"/", 1>>, <<"a", 254>> >>
  IN  /\ prompt[1] = {p}
      /\ argv_p[1] = {p}
      /\ stdin_data[1].closed /\ stdin_data[1].written = {}

\* C9: a call of spawn_claude_process whose spawn fails changes nothing but
\* its own result: registry, events, tasks, the slot and its lock, and every
\* child process stay as they were.
C9_SpawnFailureChangesNothing ==
  [][\A r \in Runs :
       (spawn_pc[r] = "idle" /\ spawn_pc'[r] = "err") =>
         UNCHANGED <<registry, next_run_id, ev_out, ev_err, ev_wait, ev_cancel,
                     stdin_pc, stdout_pc, stderr_pc, wait_pc, current_process, lock,
                     child, session_id_holder, run_id_holder>>]_vars

\* the second call failed to spawn while the first call's child occupies the
\* slot and runs on
C9_Witness ==
  /\ spawn_pc[2] = "err"
  /\ current_process = {1}
  /\ child[1] = "running"
  /\ stdout_pc[2] = "none" /\ wait_pc[2] = "none" /\ stdin_pc[2] = "none"

\* C10: with no cancel issued and no other session started, a wait task that
\* has ended waited on its own child and emitted claude-session-state
\* (stopped, success), claude-complete:{sid}(success) and
\* claude-complete(success) in this order when a session id was captured, and
\* claude-complete(success) alone otherwise; success is true iff the child
\* exited with a success status and the wait did not fail.
C10_NaturalExitEvents ==
  \A r \in Runs :
    (/\ wait_pc[r] = "done"
     /\ \A c \in Cancels : cancel_pc[c] = "idle"
     /\ \A q \in Runs \ {r} : spawn_pc[q] \in {"idle", "err"}) =>
      LET success == wait_result[r] = "exit_ok"
          sid == session_id_holder[r]
      IN  /\ taken_child[r] = {r}
          /\ wait_result[r] \in {child[r], "err"}
          /\ ev_wait[r] =
               (IF sid # {}
                THEN <<EvStopped(CHOOSE x \in sid : TRUE, success),
                       EvBool("claude-complete", sid, success)>>
                ELSE <<>>)
                 \o <<EvBool("claude-complete", {}, success)>>

\* the scenario: init line, exit status 0, claude-complete:{sid} = true
C10_Witness ==
  /\ wait_pc[1] = "done"
  /\ session_id_holder[1] = {"s1"}
  /\ child[1] = "exit_ok"
  /\ \A c \in Cancels : cancel_pc[c] = "idle"
  /\ spawn_pc[2] = "idle"
  /\ Len(ev_wait[1]) = 3
  /\ ev_wait[1][2] = EvBool("claude-complete", {"s1"}, TRUE)

\* C11: a registered run whose wait task has ended is no longer in the
\* registry, and its wait task unregistered it only after both of its stream
\* tasks were joined and after the wait task's own terminal emission
\* (claude-complete), however the run ended: natural exit, cancellation or
\* replacement in the slot.
C11_UnregisterFollowsTerminalEmission ==
  \A r \in Runs :
    (run_id_holder[r] # {} /\ wait_pc[r] = "done") =>
      /\ \A id \in run_id_holder[r] : id \notin DOMAIN registry
      /\ stdout_pc[r] = "done" /\ stderr_pc[r] = "done"
      /\ Emitted(ev_wait[r], "claude-complete", {})

\* a terminal notification has been emitted for run r: by its wait task, or
\* session-scoped by a cancel that found the run in the registry or took its
\* child from the slot
TerminalEmittedFor(r) ==
  \/ Emitted(ev_wait[r], "claude-complete", {})
  \/ /\ session_id_holder[r] # {}
     /\ \E c \in Cancels :
          /\ Emitted(ev_cancel[c], "claude-complete", session_id_holder[r])
          /\ \/ cancel_found[c] # {} /\ cancel_found[c] = run_id_holder[r]
             \/ cancel_child[c] = {r}

\* C12: once a terminal notification has been emitted for a run, by its wait
\* task or by a cancel, no step emits a claude-output or claude-error event
\* of that run.
C12_NoOutputAfterTerminal ==
  [][\A r \in Runs :
       TerminalEmittedFor(r) => (ev_out'[r] = ev_out[r] /\ ev_err'[r] = ev_err[r])]_vars

\* C13: starting a session never ends the process of another session: no
\* step of a spawn_claude_process call turns another run's running child
\* into an exited one.
C13_StartDoesNotKillOthers ==
  [][\A q \in Runs :
       spawn_pc'[q] # spawn_pc[q] =>
         \A r \in Runs \ {q} : child[r] = "running" => child'[r] = "running"]_vars

\* C14: the slot holds at most one child handle; a spawn_claude_process call
\* that took an occupant out holds the slot's lock until it has killed the
\* occupant and stored its own child, so no other task sees or changes the
\* slot in between, and right after the store the slot holds the new child.
C14_SlotReplacedInOneSection ==
  /\ [](/\ Cardinality(current_process) <= 1
        /\ \A r \in Runs :
             spawn_pc[r] = "killing" =>
               /\ lock = {<<"spawn", r>>}
               /\ current_process = {}
               /\ existing_child[r] # {} /\ r \notin existing_child[r])
  /\ [][\A r \in Runs :
          spawn_pc[r] = "killing" =>
            IF spawn_pc'[r] = "killing"
            THEN UNCHANGED <<current_process, lock>>
            ELSE /\ spawn_pc'[r] = "ok"
                 /\ current_process' = {r}
                 /\ lock' = {}
                 /\ \A x \in Runs \ existing_child[r] : child'[x] = child[x]]_vars

\* the second call replaced the first call's child: the occupant was killed
\* and the slot holds the new child
C14_Witness ==
  /\ spawn_pc[2] = "ok"
  /\ existing_child[2] = {1}
  /\ child[1] = "exit_fail"
  /\ current_process = {2}
  /\ lock = {}

\* the place of a kill method in the escalation
MethodRank(m) ==
  CASE m = "registry" -> 1
    [] m = "claude_state" -> 2
    [] m = "kill_process_tree" -> 3

\* C15: a cancel that is past its kill attempts tried its methods in the
\* order registry, slot handle, process tree, each only after every earlier
\* one failed, and tried the process-tree kill whenever neither of the first
\* two succeeded and a pid was known (from the registry record or from the
\* slot's handle), also with the slot empty.
C15_EscalationReachesTreeKill ==
  \A c \in Cancels :
    cancel_pc[c] \in {"emit", "ok"} =>
      LET q == tried[c]
      IN  /\ \A i, j \in 1..Len(q) :
               i < j => MethodRank(q[i].method) < MethodRank(q[j].method) /\ ~q[i].ok
          /\ (/\ cancel_found[c] # {} \/ cancel_child[c] # {}
              /\ \A i \in 1..Len(q) :
                   q[i].method \in {"registry", "claude_state"} => ~q[i].ok)
               => \E i \in 1..Len(q) : q[i].method = "kill_process_tree"

\* C16: resume_claude_code starts the resume attempt (--resume) first and
\* continue mode (-c) at most once, only after the resume attempt returned
\* an error; a resume attempt that did not fail is never followed by
\* continue; the call returns Ok only when its last attempt was spawned, and
\* returns the fallback's error when the fallback fails, with no third
\* attempt.
C16_OneShotFallback ==
  LET q == resume_attempts
      failed(a) == a.run = {} \/ \E r \in a.run : spawn_pc[r] = "err"
  IN  /\ Len(q) <= 2
      /\ Len(q) >= 1 => q[1].args = "--resume" /\ q[1].run # {}
      /\ Len(q) = 2 => q[2].args = "-c" /\ failed(q[1])
      /\ (Len(q) >= 1 /\ ~failed(q[1])) => Len(q) = 1 /\ resume_pc # "fallback"
      /\ (Len(q) = 2 /\ failed(q[2])) => resume_pc = "err"
      /\ resume_pc = "ok" => Len(q) >= 1 /\ ~failed(q[Len(q)])
      /\ resume_pc = "err" => Len(q) = 0 \/ (Len(q) = 2 /\ failed(q[2]))

\* the resume attempt failed to spawn, the fallback was started with the same
\* prompt and failed to spawn too, and the call returned the error
C16_Witness ==
  /\ resume_pc = "err"
  /\ Len(resume_attempts) = 2
  /\ resume_attempts[1].run = {1} /\ spawn_pc[1] = "err"
  /\ resume_attempts[2].run = {2} /\ spawn_pc[2] = "err"
  /\ resume_attempts[2].prompt = resume_attempts[1].prompt

\* C17: once resume_claude_code has returned, a resume attempt that failed
\* to spawn, or that was spawned and whose stdout ended or failed before any
\* line was read, has been followed by a continue attempt.
C17_FallbackOnFirstReadFailure ==
  (resume_pc \in {"ok", "err"} /\ Len(resume_attempts) >= 1) =>
    \A r \in resume_attempts[1].run :
      (\/ spawn_pc[r] = "err"
       \/ spawn_pc[r] = "ok" /\ stdout_pc[r] = "done" /\ n_out[r] = 0) =>
        /\ Len(resume_attempts) = 2
        /\ resume_attempts[2].args = "-c"

\* the runs now in the registry under session id s
RegisteredUnder(s) ==
  {r \in Runs : session_id_holder[r] = {s} /\ run_id_holder[r] # {}
                  /\ run_id_holder[r] \subseteq DOMAIN registry}

\* the lines run r's stdout task has appended to its buffer
AppendedLines(r) == [i \in 1..Len(appends[r]) |-> appends[r][i].line]

\* C18: at any moment get_claude_session_output(s) succeeds; it returns the
\* lines buffered for a run registered under s, and the empty output when no
\* run is registered under s: before the init line was processed and after
\* the run was unregistered.
C18_SessionOutputOrEmpty ==
  \A s \in SIDs :
    LET res == get_claude_session_output(registry, s)
    IN  /\ res.ok
        /\ IF RegisteredUnder(s) = {}
           THEN res.out = <<>>
           ELSE \E r \in RegisteredUnder(s) : res.out = AppendedLines(r)

\* run 1 announced s1, buffered lines and has been unregistered: s1 gives the
\* empty output; run 2 is registered under s2 and s2 gives its buffered line
C18_Witness ==
  /\ wait_pc[1] = "done" /\ session_id_holder[1] = {"s1"}
  /\ run_id_holder[1] # {} /\ Len(appends[1]) >= 1
  /\ get_claude_session_output(registry, "s1") = [ok |-> TRUE, out |-> <<>>]
  /\ RegisteredUnder("s2") = {2}
  /\ Len(get_claude_session_output(registry, "s2").out) >= 1

\* C19: for as long as a run is registered its live-output buffer holds
\* every stdout line read from its child so far, in order, the lines read
\* before the init line included.
C19_LiveOutputHoldsEveryLine ==
  \A r \in Runs : \A id \in run_id_holder[r] :
    id \in DOMAIN registry =>
      /\ Len(registry[id].live_output) = n_out[r]
      /\ \A i \in 1..n_out[r] :
           registry[id].live_output[i].src = r /\ registry[id].live_output[i].idx = i

\* C20: no task holds the slot's lock while it awaits a kill, awaits a
\* child's exit or sleeps: not a spawn_claude_process call killing the
\* occupant, not a wait task in child.wait() or in its delay before the
\* emits, not a cancel killing the child it took.
C20_LockNotHeldAcrossWait ==
  /\ \A r \in Runs : spawn_pc[r] = "killing" => <<"spawn", r>> \notin lock
  /\ \A r \in Runs : wait_pc[r] \in {"wait", "notify"} => <<"wait", r>> \notin lock
  /\ \A c \in Cancels : cancel_pc[c] = "legacy_kill" => <<"cancel", c>> \notin lock

\* the holders of child x's handle: the slot, the call that spawned it and
\* has not stored it yet, a call killing it as the occupant it took out, a
\* cancel killing it, a wait task waiting on it
Owners(x) ==
  {<<"slot", 0>> : y \in current_process \cap {x}}
    \cup {<<"spawn", r>> : r \in {y \in {x} : spawn_pc[y] \in {"spawned", "killing"}}}
    \cup {<<"replace", r>> :
            r \in {y \in Runs : spawn_pc[y] = "killing" /\ x \in existing_child[y]}}
    \cup {<<"cancel", c>> :
            c \in {d \in Cancels : cancel_pc[d] = "legacy_kill" /\ x \in cancel_child[d]}}
    \cup {<<"wait", r>> :
            r \in {y \in Runs : wait_pc[y] \in {"wait", "notify"} /\ x \in taken_child[y]}}

\* C21: a child handle has at most one holder among the slot, a spawning
\* call, a cancel call and a wait task, so no kill of a handle runs while a
\* wait on it does, and at most one wait task ever waits on a given child.
C21_HandleHasOneOwner ==
  \A x \in Runs :
    /\ Cardinality(Owners(x)) <= 1
    /\ Cardinality({r \in Runs : x \in taken_child[r]}) <= 1
    /\ ~ /\ \E r \in Runs : wait_pc[r] = "wait" /\ x \in taken_child[r]
         /\ \/ \E c \in Cancels : cancel_pc[c] = "legacy_kill" /\ x \in cancel_child[c]
            \/ \E r \in Runs : spawn_pc[r] = "killing" /\ x \in existing_child[r]

\* a cancel is killing the child it took from the slot while that child's
\* wait task stands at the slot's lock
C21_Witness ==
  \E c \in Cancels :
    /\ cancel_pc[c] = "legacy_kill" /\ cancel_child[c] = {1}
    /\ wait_pc[1] = "lock"
    /\ Owners(1) = {<<"cancel", c>>}

\* C22: every cancel_claude_execution call that was made returns, with no
\* need for the child to exit by itself, also while a wait task is waiting
\* for its process to exit.
C22_CancelReturns ==
  \A c \in Cancels : (cancel_pc[c] # "idle") ~> (cancel_pc[c] = "ok")

\* the claude-output events of run r's stdout task, in order, and the lines
\* of the generic ones
OutputLog(r) == SelectSeq(ev_out[r], LAMBDA e : e.name = "claude-output")
GenericLines(r) ==
  LET g == Select(ev_out[r], "claude-output", {})
  IN  [i \in 1..Len(g) |-> CHOOSE l \in g[i].line : TRUE]

\* what the lines from the i-th on are to be emitted as, sid being the
\* session id captured from the lines before them
RECURSIVE ExpectedOutput(_, _, _)
ExpectedOutput(lines, i, sid) ==
  IF i > Len(lines) THEN <<>>
  ELSE LET l == lines[i]
           now == IF sid = {} /\ IsInit(l.text) THEN l.text.session_id ELSE sid
       IN  (IF now # {} THEN <<Ev("claude-output", now, TRUE, "", {l}, {})>> ELSE <<>>)
             \o <<Ev("claude-output", {}, TRUE, "", {l}, {})>>
             \o ExpectedOutput(lines, i + 1, now)

\* C23: every stdout line read, JSON or not, is emitted unchanged exactly
\* once on claude-output, in reading order; from the first init line on (that
\* line included) each line is emitted on claude-output:{session_id} right
\* before its generic emission, and not before.
C23_EveryLineEmitted ==
  \A r \in Runs :
    LET lines == GenericLines(r)
    IN  /\ Len(lines) = n_out[r]
        /\ \A i \in 1..Len(lines) : lines[i].src = r /\ lines[i].idx = i
        /\ OutputLog(r) = ExpectedOutput(lines, 1, {})

\* a line that is not JSON was read before the init line and another after
\* it would be next: the first went out on the generic event alone, the init
\* line on both
C23_Witness ==
  /\ n_out[1] = 2
  /\ GenericLines(1)[1].text = NotJson
  /\ GenericLines(1)[2].text = InitLine("s1")
  /\ Len(OutputLog(1)) = 3
  /\ OutputLog(1)[2].scope = {"s1"} /\ OutputLog(1)[3].scope = {}

\* C24: a stdout line that is not valid UTF-8 does not stop the reader: the
\* step that meets it leaves the stdout task reading, and the line is
\* forwarded like any other, so the generic claude-output events number the
\* lines decoded plus the lines that failed to decode.
C24_DecodeErrorNotFatal ==
  /\ [](\A r \in Runs : Len(GenericLines(r)) = n_out[r] + decode_errors[r])
  /\ [][\A r \in Runs :
          decode_errors'[r] > decode_errors[r] => stdout_pc'[r] = "reading"]_vars

\* C25: a step that processes a stderr line of run r appends to r's events
\* claude-error:{session_id}, when a session id is held, and then
\* claude-error, both carrying the line, and changes nothing else: no
\* buffer, no session id or run id, not the registry, not the slot, no
\* terminal notification, no other task.
C25_StderrLineOnlyEmits ==
  [][\A r \in Runs :
       n_err'[r] # n_err[r] =>
         LET l == [src |-> r, idx |-> n_err'[r], text |-> NotJson]
             sid == session_id_holder[r]
         IN  /\ n_err'[r] = n_err[r] + 1
             /\ ev_err'[r] =
                  ev_err[r]
                    \o (IF sid # {} THEN <<Ev("claude-error", sid, TRUE, "", {l}, {})>>
                        ELSE <<>>)
                    \o <<Ev("claude-error", {}, TRUE, "", {l}, {})>>
             /\ \A q \in Runs \ {r} : ev_err'[q] = ev_err[q] /\ n_err'[q] = n_err[q]
             /\ UNCHANGED <<registryVars, slotVars, routerVars, waitVars, cancelVars,
                            procVars, spawnVars, stdinVars, resumeVars, stderr_pc>>]_vars

\* a stderr line was processed after the session id was captured: two
\* claude-error events, and the buffer holds the init line alone
C25_Witness ==
  /\ n_err[1] = 1
  /\ session_id_holder[1] = {"s1"}
  /\ Len(ev_err[1]) = 2 /\ ev_err[1][1].scope = {"s1"} /\ ev_err[1][2].scope = {}
  /\ \E id \in run_id_holder[1] :
       id \in DOMAIN registry /\ Len(registry[id].live_output) = 1

\* the count a field holds, if it holds an unsigned integer
CountOf(field) == {t.val : t \in {x \in field : x.kind = "u64"}}

\* C26: a stdout line whose usage object holds input_tokens and output_tokens
\* as unsigned integers forwards one update with total = input + output for
\* the session id held at that moment, and forwards nothing when no session
\* id is held; a line lacking either count forwards nothing; nothing is
\* forwarded later for an earlier line. Counts 10 and 5 give 15.
C26_UsageForwarded ==
  /\ [](\A r \in Runs : \A i \in 1..Len(usage_updates[r]) :
          /\ usage_updates[r][i].total = {15}
          /\ usage_updates[r][i].session_id = first_init[r])
  /\ [][\A r \in Runs :
          n_out'[r] # n_out[r] =>
            LET g == GenericLines(r)'
                text == g[Len(g)].text
                sid == session_id_holder'[r]
                counted ==
                  /\ text.json /\ text.usage # {}
                  /\ \A u \in text.usage :
                       CountOf(u.input_tokens) # {} /\ CountOf(u.output_tokens) # {}
            IN  IF counted /\ sid # {}
                THEN \E u \in text.usage :
                       \E a \in CountOf(u.input_tokens), b \in CountOf(u.output_tokens) :
                         usage_updates'[r] =
                           Append(usage_updates[r],
                                  [session_id |-> sid, total |-> {a + b}])
                ELSE usage_updates'[r] = usage_updates[r]]_vars

\* a usage line, then the init line, then a usage line: one update, for the
\* third line
C26_Witness ==
  /\ n_out[1] = 3
  /\ LET g == GenericLines(1)
     IN  /\ Len(g) = 3
         /\ g[1].text = UsageLine /\ g[2].text = InitLine("s1") /\ g[3].text = UsageLine
  /\ usage_updates[1] = <<[session_id |-> {"s1"}, total |-> {15}]>>

\* the positions of the started events among run r's stdout events
StartedAt(r) ==
  {i \in 1..Len(ev_out[r]) :
     ev_out[r][i].name = "claude-session-state" /\ ev_out[r][i].status = "started"}

\* C27: a run emits the started event at most once; it is emitted only in
\* the step that processes the run's first init line and only when the
\* registration returned a run id; it carries that session id, the pid and
\* the run id; and every claude-output:{session_id} event of the run comes
\* after it.
C27_StartedOnceWithInit ==
  /\ [](\A r \in Runs :
          /\ Cardinality(StartedAt(r)) <= 1
          /\ \A i \in StartedAt(r) :
               /\ first_init[r] # {}
               /\ run_id_holder[r] # {}
               /\ ev_out[r][i].ids =
                    {[session_id |-> s, pid |-> r, run_id |-> id] :
                       s \in first_init[r], id \in run_id_holder[r]}
               /\ \A j \in 1..Len(ev_out[r]) :
                    (ev_out[r][j].name = "claude-output" /\ ev_out[r][j].scope # {})
                      => j > i
               /\ i < Len(ev_out[r])
               /\ \A l \in ev_out[r][i + 1].line :
                    /\ IsInit(l.text) /\ l.text.session_id = first_init[r]
                    /\ \A k \in 1..(l.idx - 1) : ~IsInit(GenericLines(r)[k].text))
  /\ [][\A r \in Runs :
          StartedAt(r)' # StartedAt(r) =>
            /\ n_out'[r] = n_out[r] + 1
            /\ session_id_holder[r] = {} /\ session_id_holder'[r] # {}
            /\ run_id_holder[r] = {} /\ run_id_holder'[r] # {}
            /\ \A id \in run_id_holder'[r] :
                 id \notin DOMAIN registry /\ id \in DOMAIN registry']_vars

\* run 1 read two init lines and was registered on the first: one started
\* event, ahead of the session's output events; run 2 read an init line and
\* its registration failed: no started event
C27_Witness ==
  /\ n_out[1] = 2 /\ Cardinality(StartedAt(1)) = 1
  /\ IsInit(GenericLines(1)[1].text) /\ IsInit(GenericLines(1)[2].text)
  /\ Len(Select(ev_out[1], "claude-output", first_init[1])) = 2
  /\ first_init[2] # {} /\ run_id_holder[2] = {} /\ StartedAt(2) = {}

\* C28: a cancel enters the legacy-slot strategy exactly when the registry
\* strategy did not report a kill; the strategy takes whatever child
\* occupies the slot, whatever session id the caller passed, signals that
\* child (which ends it when child.kill() or kill_process_tree succeeds),
\* and leaves the slot empty.
C28_LegacyTakesOccupant ==
  [][\A c \in Cancels :
       /\ (cancel_pc[c] = "idle" /\ cancel_pc'[c] # "idle") =>
            /\ cancel_pc'[c] \in {"legacy", "emit"}
            /\ (cancel_pc'[c] = "legacy") <=> ~killed'[c]
       /\ (cancel_pc[c] # "legacy" /\ cancel_pc'[c] = "legacy") => cancel_pc[c] = "idle"
       /\ (cancel_pc[c] = "legacy" /\ cancel_pc'[c] # "legacy") =>
            /\ current_process' = {}
            /\ IF current_process = {}
               THEN cancel_pc'[c] = "emit"
               ELSE cancel_pc'[c] = "legacy_kill" /\ cancel_child'[c] = current_process
       /\ (cancel_pc[c] # "legacy_kill" /\ cancel_pc'[c] = "legacy_kill") =>
            cancel_pc[c] = "legacy"
       /\ (cancel_pc[c] = "legacy_kill" /\ cancel_pc'[c] # "legacy_kill") =>
            /\ current_process' = {} /\ lock' = {}
            /\ \E i \in 1..Len(tried'[c]) : tried'[c][i].method = "claude_state"
            /\ killed'[c] <=>
                 \E i \in 1..Len(tried'[c]) :
                   tried'[c][i].method # "registry" /\ tried'[c][i].ok
            /\ killed'[c] => \A x \in cancel_child[c] : child'[x] # "running"]_vars

\* a cancel called with session id s2 took run 1, whose session is s1, out
\* of the slot and killed it
C28_Witness ==
  \E c \in Cancels :
    /\ cancel_pc[c] = "ok" /\ cancel_sid[c] = {"s2"}
    /\ cancel_child[c] = {1} /\ session_id_holder[1] = {"s1"}
    /\ tried[c] = <<[method |-> "claude_state", ok |-> TRUE]>>
    /\ child[1] = "exit_fail" /\ current_process = {}

\* C29: a run has its run id from the moment of spawn: once its child is
\* spawned, and before any stdout line has been read, the run holds a run id
\* under which the registry has it.
C29_RunIdFromSpawn ==
  \A r \in Runs :
    (child[r] = "running" /\ n_out[r] = 0) =>
      /\ run_id_holder[r] # {}
      /\ \A id \in run_id_holder[r] : id \in DOMAIN registry

\* C30: while the stdin task of a run has not finished its write, nothing
\* else waits for it: spawn_claude_process goes on to return Ok as soon as
\* the slot lock is free, before any line and whether or not the child has
\* exited; the stdout and stderr tasks process the next line; and every
\* step of cancel_claude_execution goes on as soon as the slot lock is free.
C30_StdinTaskBlocksNothing ==
  \A r \in Runs :
    stdin_pc[r] = "pending" =>
      /\ (spawn_pc[r] = "spawned" /\ lock = {}) => ENABLED spawn_lock_slot(r)
      /\ stdout_pc[r] = "reading" => ENABLED stdout_line(r, NotJson, TRUE)
      /\ stderr_pc[r] = "reading" => ENABLED stderr_line(r)
      /\ \A c \in Cancels :
           /\ (cancel_pc[c] = "idle" /\ \A q \in Cancels : q < c => cancel_pc[q] # "idle")
                => ENABLED cancel_registry(c, {}, "false")
           /\ (cancel_pc[c] = "legacy" /\ lock = {}) => ENABLED cancel_take_child(c)
           /\ cancel_pc[c] = "legacy_kill" => ENABLED cancel_kill_child(c, TRUE, TRUE)
           /\ cancel_pc[c] = "emit" => ENABLED cancel_emit(c)

\* the stdin task of run 1 is still writing; spawn_claude_process returned
\* Ok, a stdout line and a stderr line were processed, and a cancel killed
\* the child and returned
C30_Witness ==
  /\ stdin_pc[1] = "pending" /\ spawn_pc[1] = "ok"
  /\ n_out[1] = 1 /\ n_err[1] = 1
  /\ cancel_pc[1] = "ok" /\ killed[1] /\ child[1] = "exit_fail"

\* C31: the step of the stdin task closes the child's stdin in both modes;
\* with the prompt on stdin the prompt is what was written, once, unless the
\* write failed; with the prompt in the arguments nothing is written.  The
\* step, failed or not, emits no event, ends no process and leaves the
\* registry, the slot and every other task as they were.
C31_StdinFedAndClosed ==
  [][\A r \in Runs :
       stdin_pc'[r] # stdin_pc[r] /\ stdin_pc[r] = "pending" =>
         /\ stdin_pc'[r] \in {"done", "write_failed", "shutdown_failed"}
         /\ stdin_data'[r].closed
         /\ stdin_data'[r].written =
              (IF argv_p[r] = {} /\ stdin_pc'[r] # "write_failed" THEN prompt[r] ELSE {})
         /\ argv_p[r] # {} => stdin_pc'[r] # "write_failed"
         /\ UNCHANGED <<ev_out, ev_err, ev_wait, ev_cancel, child, registryVars,
                        slotVars, routerVars, stderrVars, waitVars, cancelVars,
                        spawnVars>>]_vars

\* the write of run 1 failed; the run went on: a line was read and emitted,
\* the child exited by itself and the wait task reported the exit
C31_Witness ==
  /\ stdin_pc[1] = "write_failed" /\ stdin_data[1].closed
  /\ n_out[1] = 1 /\ Len(ev_out[1]) > 0
  /\ child[1] = "exit_ok" /\ wait_pc[1] = "done"
  /\ cancel_pc[1] = "idle"

\* the sources of the child's environment in their order, each giving a
\* value to some names
EnvSources(c) ==
  <<[k \in EnvKeys |-> IF k \in {"PATH", "ANTHROPIC_MODEL"} THEN c.parent[k] ELSE {}],
    [k \in EnvKeys |->
       IF k = "PATH" /\ c.nvm
            /\ \A v \in c.parent["PATH"] : \A i \in 1..Len(v) : v[i] # "nvm_bin"
       THEN {<<"nvm_bin">> \o (IF c.parent["PATH"] = {} THEN <<>>
                               ELSE CHOOSE v \in c.parent["PATH"] : TRUE)}
       ELSE {}],
    [k \in EnvKeys |-> {j.val : j \in {x \in c.settings[k] : x.kind = "str"}}],
    [k \in EnvKeys |-> IF k = "ANTHROPIC_MODEL" THEN c.model ELSE {}]>>

\* C32: for every name that some source defines, the child receives the
\* value of the last source defining it, in the order inherited variables of
\* the allow list, NVM PATH prepend, string entries of settings.json env,
\* ANTHROPIC_MODEL from the requested model; a non-string entry defines nothing.
C32_LaterSourceWins ==
  \A c \in cmd_env : \A k \in EnvKeys :
    LET src == EnvSources(c)
        defining == {i \in 1..Len(src) : src[i][k] # {}}
    IN  defining # {} =>
          c.child[k] = src[CHOOSE i \in defining : \A j \in defining : j <= i][k]

\* a Command built with PATH inherited, prepended for NVM and set as a string
\* in settings.json, and ANTHROPIC_MODEL inherited, set in settings.json and
\* requested as a model: the child gets the settings PATH and the model
C32_Witness ==
  \E c \in cmd_env :
    /\ c.parent["PATH"] = {<<"usr">>} /\ c.nvm
    /\ c.settings["PATH"] = {[kind |-> "str", val |-> <<"cfg">>]}
    /\ c.parent["ANTHROPIC_MODEL"] # {} /\ c.settings["ANTHROPIC_MODEL"] # {}
    /\ c.model = {<<"sonnet">>}
    /\ c.child["PATH"] = {<<"cfg">>} /\ c.child["ANTHROPIC_MODEL"] = {<<"sonnet">>}

\* C33: the child a run's wait task takes from the slot and waits on is the
\* child of that run, and the status it reports on claude-complete:{its
\* session id} is that child's.
C33_WaitTakesOwnChild ==
  \A r \in Runs :
    /\ \A x \in taken_child[r] : x = r
    /\ \A i \in 1..Len(ev_wait[r]) :
         (ev_wait[r][i].name = "claude-complete" /\ ev_wait[r][i].scope # {})
           => ev_wait[r][i].ok = StatusSuccess(child[r])

\* the values carried by the claude-complete:{sid} events of a log
ScopedCompletes(log, sid) ==
  {log[i].ok : i \in {j \in 1..Len(log) :
                        log[j].name = "claude-complete" /\ log[j].scope = sid}}

\* C34: all claude-complete:{session_id} events emitted for one session, by
\* wait tasks and by cancels, carry the same boolean.
C34_CompleteValuesAgree ==
  \A s \in SIDs :
    Cardinality(UNION ({ScopedCompletes(ev_wait[r], {s}) : r \in Runs}
                         \cup {ScopedCompletes(ev_cancel[c], {s}) : c \in Cancels})) <= 1

\* C35: every session for which the started event was emitted has had a
\* claude-session-state stopped event with its session id emitted once every
\* child has exited and every task and call has finished.
C35_StartedGetsStopped ==
  Quiescent =>
    \A r \in Runs : \A i \in StartedAt(r) : \A d \in ev_out[r][i].ids :
      \E q \in Runs : \E j \in 1..Len(ev_wait[q]) :
        /\ ev_wait[q][j].name = "claude-session-state"
        /\ ev_wait[q][j].status = "stopped"
        /\ \E e \in ev_wait[q][j].ids : e.session_id = d.session_id

\* the run ids handed out and no longer in the registry
Unregistered == {id \in 1..(next_run_id - 1) : id \notin DOMAIN registry}

\* C36: no append_live_output(run_id, line) call is issued once that run id
\* has been unregistered, and a run id leaves the registry only after the
\* stdout task of its run has finished.
C36_NoAppendAfterUnregister ==
  [][\A r \in Runs :
       /\ appends'[r] # appends[r] =>
            /\ Len(appends'[r]) = Len(appends[r]) + 1
            /\ appends'[r][Len(appends'[r])].run_id \notin Unregistered
       /\ \A id \in run_id_holder[r] :
            (id \in DOMAIN registry /\ id \notin DOMAIN registry') =>
              stdout_pc[r] = "done"]_vars

\* run 1 appended both of its lines and was then unregistered by its wait task
C36_Witness ==
  /\ Len(appends[1]) = 2 /\ wait_pc[1] = "done"
  /\ \A id \in run_id_holder[1] : id \in Unregistered
  /\ run_id_holder[1] # {}

\* C37: whenever a wait task makes its final write of None to the slot, the
\* slot is already empty: the write discards no child.
C37_FinalClearFindsSlotEmpty ==
  [][\A r \in Runs :
       (wait_pc[r] # "done" /\ wait_pc'[r] = "done") =>
         current_process = {} /\ current_process' = {}]_vars

\* the wait task of run 1 took its child, reported its exit and cleared the
\* slot; run 2, started meanwhile, has its child in the slot
C37_Witness ==
  /\ wait_pc[1] = "done" /\ taken_child[1] = {1} /\ Len(ev_wait[1]) > 0
  /\ spawn_pc[2] = "ok" /\ current_process = {2}

\* C38: a run that holds a run id holds a session id, and lines are buffered
\* only for such a run; the run id is set only in the step that captures
\* the session id from the first init line; when the registration failed
\* the session id stays, the run id stays unknown and no later line
\* registers again.
C38_RunIdImpliesSessionId ==
  /\ [](\A r \in Runs :
          /\ run_id_holder[r] # {} => session_id_holder[r] # {}
          /\ appends[r] # <<>> => session_id_holder[r] # {} /\ run_id_holder[r] # {}
          /\ register_calls[r] <= 1)
  /\ [][\A r \in Runs :
          /\ run_id_holder'[r] # run_id_holder[r] =>
               /\ run_id_holder[r] = {}
               /\ session_id_holder[r] = {} /\ session_id_holder'[r] # {}
               /\ n_out'[r] = n_out[r] + 1
               /\ session_id_holder'[r] = first_init'[r]
          /\ (session_id_holder[r] # {} /\ run_id_holder[r] = {}) =>
               /\ run_id_holder'[r] = {}
               /\ session_id_holder'[r] = session_id_holder[r]
               /\ register_calls'[r] = register_calls[r]]_vars

\* the registration of run 1 failed on its first init line; a second init
\* line was read: the session id is held, the run id is not, one
\* registration was tried and nothing was buffered
C38_Witness ==
  /\ n_out[1] = 2
  /\ IsInit(GenericLines(1)[1].text) /\ IsInit(GenericLines(1)[2].text)
  /\ session_id_holder[1] # {} /\ run_id_holder[1] = {}
  /\ register_calls[1] = 1 /\ appends[1] = <<>>

====
